---- MODULE Spec2Model ----
(***************************************************************************)
(* MikroAuthClient: the session orchestrator of the MikroAuth magic-link   *)
(* client, over a StorageProvider and the remote auth endpoint.            *)
(*                                                                         *)
(* Every public method is one action.  A method is an operator from the    *)
(* world before the call (storage, clock, log of adapter and network       *)
(* calls) to the SET of its possible outcomes: the storage adapter may     *)
(* fail any call, the endpoint may answer anything, and the clock may move *)
(* while a request is in flight.                                           *)
(***************************************************************************)
EXTENDS Integers, Sequences, FiniteSets, TLC

VARIABLES storage, now, last, calls

vars == <<storage, now, last, calls>>

(***************************************************************************)
(* Bounds of the model.                                                    *)
(***************************************************************************)
\* The clock takes the values k * 10000 - 1, k * 10000, k * 10000 + 1 (ms)
\* for k in 0 .. MaxClockSteps.
MaxClockSteps == 1
\* One getSessions call is followed through at most MaxRequests requests
\* (/sessions and /refresh together).
MaxRequests == 4

(***************************************************************************)
(* Program constants.                                                      *)
(***************************************************************************)
bufferInSeconds == 10
tokenKey == "mikroauth_tokens"
otherKey == "app_settings"
Keys == {tokenKey, otherKey}

(***************************************************************************)
(* JavaScript values.  undefined and null are kept apart from every string *)
(* the program handles; a missing number is NoNum.                         *)
(***************************************************************************)
UNDEF == "<undefined>"
NULL == "<null>"
NoNum == 0 - 1

Falsy(s) == s \in {"", UNDEF, NULL}

\* a || b on strings
OrElse(a, b) == IF Falsy(a) THEN b ELSE a

(***************************************************************************)
(* Errors.  origin tells where the exception object was created:           *)
(*   "client"    new Error('<literal>') in MikroAuthClient                 *)
(*   "server"    new Error(error.message), the message of the error body   *)
(*   "transport" the rejection of fetch()                                  *)
(*   "parse"     the rejection of response.json()                          *)
(***************************************************************************)
NoErr == [msg |-> "", origin |-> "none"]
ClientError(m) == [msg |-> m, origin |-> "client"]
TransportError == [msg |-> "TypeError: Failed to fetch", origin |-> "transport"]
ParseError == [msg |-> "SyntaxError: Unexpected token", origin |-> "parse"]
\* the model stopped following a getSessions call: the call has not finished
CutOff == [msg |-> "", origin |-> "cutoff"]

(***************************************************************************)
(* TokenData and its JSON text.  A JSON text is the list of its members,   *)
(* in order; JSON.stringify leaves out a member whose value is undefined,  *)
(* JSON.parse takes the last member of a name and reads a missing member   *)
(* as undefined.                                                           *)
(***************************************************************************)
NullTokens ==
  [isNull |-> TRUE, accessToken |-> UNDEF, refreshToken |-> UNDEF,
   expiresIn |-> NoNum, expiresAt |-> NoNum, tokenType |-> UNDEF]

TokenData(a, r, e, x, t) ==
  [isNull |-> FALSE, accessToken |-> a, refreshToken |-> r,
   expiresIn |-> e, expiresAt |-> x, tokenType |-> t]

StrMember(k, v) ==
  IF v = UNDEF THEN <<>> ELSE <<[k |-> k, t |-> "str", s |-> v, n |-> 0]>>

NumMember(k, v) ==
  IF v = NoNum THEN <<>> ELSE <<[k |-> k, t |-> "num", s |-> "", n |-> v]>>

\* what storage holds under a key: nothing, the empty string, a text that is
\* not JSON, or a JSON text
NullItem == [kind |-> "null", m |-> <<>>]
EmptyItem == [kind |-> "empty", m |-> <<>>]
GarbageItem == [kind |-> "text", m |-> <<>>]

JSONstringify(td) ==
  [kind |-> "json",
   m |-> StrMember("accessToken", td.accessToken)
         \o StrMember("refreshToken", td.refreshToken)
         \o NumMember("expiresIn", td.expiresIn)
         \o NumMember("expiresAt", td.expiresAt)
         \o StrMember("tokenType", td.tokenType)]

MemberIdx(m, k) == {i \in 1..Len(m) : m[i].k = k}

LastIdx(S) == CHOOSE i \in S : \A j \in S : j <= i

StrOf(m, k) ==
  IF MemberIdx(m, k) = {} THEN UNDEF ELSE m[LastIdx(MemberIdx(m, k))].s

NumOf(m, k) ==
  IF MemberIdx(m, k) = {} THEN NoNum ELSE m[LastIdx(MemberIdx(m, k))].n

\* JSON.parse(data) as TokenData; ok = FALSE when it throws
JSONparse(data) ==
  IF data.kind = "json"
  THEN [ok |-> TRUE,
        val |-> TokenData(StrOf(data.m, "accessToken"),
                          StrOf(data.m, "refreshToken"),
                          NumOf(data.m, "expiresIn"),
                          NumOf(data.m, "expiresAt"),
                          StrOf(data.m, "tokenType"))]
  ELSE [ok |-> FALSE, val |-> NullTokens]

\* `data ? ... : null`: null and the empty string are falsy
Truthy(data) == data.kind \notin {"null", "empty"}

(***************************************************************************)
(* The world a call runs in, and the log of what it did to its             *)
(* collaborators.                                                          *)
(***************************************************************************)
\* res: "ok" / "failed" for an adapter call, the status or "rejected" for a
\* request; body: what response.json() made of the answer's body ("json" /
\* "unparsable"), "" while the body has not been read
Event(ev, target, bearer, payload) ==
  [ev |-> ev, target |-> target, bearer |-> bearer, payload |-> payload,
   res |-> "ok", body |-> ""]

AdapterEvent(ev, key, res) == [Event(ev, key, "", "") EXCEPT !.res = res]

Log(w, e) == [w EXCEPT !.trace = Append(@, e)]

ClockValues ==
  {t \in UNION {{k * 10000 - 1, k * 10000, k * 10000 + 1} : k \in 0..MaxClockSteps} :
     t >= 0}

LaterClock(t) == {u \in ClockValues : u > t}

NextClock(t) == CHOOSE u \in LaterClock(t) : \A v \in LaterClock(t) : u <= v

\* the clock when a request that was sent at t is answered.  Time in flight is
\* followed for the two requests whose answer is saved (saveTokens reads the
\* clock); before any other request it is the same as time passing before
\* the call.
AnswerClock(path, t) ==
  IF path \in {"/verify", "/refresh"} /\ LaterClock(t) # {}
  THEN {t, NextClock(t)} ELSE {t}

\* `await`: the rest of an async method, run after every outcome of a call
Bind(S, F(_)) == UNION {F(x) : x \in S}

(***************************************************************************)
(* window.location.search as URLSearchParams reads it: get() gives null    *)
(* for a parameter that is not there, '' for one without a value.  The     *)
(* location is read and written by handleMagicLink alone; the location the *)
(* call finds is an input of the call.                                     *)
(***************************************************************************)
Search(token, email) == [token |-> token, email |-> email]

NoSearch == Search(NULL, NULL)

(***************************************************************************)
(* Outcomes of a call: the world after it, and what it returned or threw.  *)
(***************************************************************************)
Ret(w, v) == [w |-> w, ok |-> TRUE, err |-> NoErr, val |-> v]

\* v is a value of the call's return type; a caller never reads it
Throw(w, e, v) == [w |-> w, ok |-> FALSE, err |-> e, val |-> v]

(***************************************************************************)
(* StorageProvider: every call either does what LocalStorageAdapter does   *)
(* or throws (quota, disabled storage, a failing custom provider), leaving *)
(* the store as it was.                                                    *)
(***************************************************************************)
AdapterError == [msg |-> "storage failure", origin |-> "storage"]

StorageGetItem(w, key) ==
  {Ret(Log(w, AdapterEvent("getItem", key, "ok")), w.storage[key]),
   Throw(Log(w, AdapterEvent("getItem", key, "failed")), AdapterError, NullItem)}

StorageSetItem(w, key, value) ==
  {Ret([Log(w, AdapterEvent("setItem", key, "ok")) EXCEPT !.storage[key] = value], TRUE),
   Throw(Log(w, AdapterEvent("setItem", key, "failed")), AdapterError, FALSE)}

StorageRemoveItem(w, key) ==
  {Ret([Log(w, AdapterEvent("removeItem", key, "ok")) EXCEPT !.storage[key] = NullItem], TRUE),
   Throw(Log(w, AdapterEvent("removeItem", key, "failed")), AdapterError, FALSE)}

\* LocalStorageAdapter.clear(): localStorage.clear() empties the whole store,
\* the entries of the rest of the page included.  The client never calls it.
StorageClear(w) ==
  {Ret([Log(w, AdapterEvent("clear", "", "ok"))
          EXCEPT !.storage = [k \in Keys |-> NullItem]], TRUE),
   Throw(Log(w, AdapterEvent("clear", "", "failed")), AdapterError, FALSE)}

(***************************************************************************)
(* The remote auth endpoint, through fetch(): a request is rejected (no    *)
(* response at all) or answered with a status and a body that response     *)
(* .json() parses or not.                                                  *)
(***************************************************************************)
Body(msg, a, r, e, x, t) ==
  [message |-> msg, accessToken |-> a, refreshToken |-> r,
   expiresIn |-> e, expiresAt |-> x, tokenType |-> t]

EmptyBody == Body(UNDEF, UNDEF, UNDEF, NoNum, NoNum, UNDEF)

MessageBody(msg) == Body(msg, UNDEF, UNDEF, NoNum, NoNum, UNDEF)

TokenBody(a, r, e, x, t) == Body(UNDEF, a, r, e, x, t)

\* the token bodies /verify and /refresh answer with
NetTokenBodies ==
  {TokenBody("a2", "r2", 20, 12345, "Bearer"),
   TokenBody("a1", "r1", 10, NoNum, UNDEF),
   TokenBody("a2", "r2", 9, NoNum, UNDEF),
   TokenBody("", "r1", 20, NoNum, UNDEF)}

OkBodies(path) ==
  IF path \in {"/verify", "/refresh"} THEN NetTokenBodies
  ELSE IF path = "/login" THEN {MessageBody("Magic link sent")}
  ELSE IF path = "/logout" THEN {MessageBody("Logged out by server")}
  ELSE {EmptyBody}

ErrBodies == {MessageBody("Too many requests"), MessageBody(""), EmptyBody}

Statuses == {200, 401, 500}

IsOk(status) == status >= 200 /\ status < 300

Response(status, parses, body) ==
  [rejected |-> FALSE, status |-> status, parses |-> parses, body |-> body]

Rejected == [rejected |-> TRUE, status |-> 0, parses |-> FALSE, body |-> EmptyBody]

Answers(path) ==
  {Rejected}
  \cup {Response(s, FALSE, EmptyBody) : s \in Statuses}
  \cup {Response(s, TRUE, b) : s \in {t \in Statuses : IsOk(t)}, b \in OkBodies(path)}
  \cup {Response(s, TRUE, b) : s \in {t \in Statuses : ~IsOk(t)}, b \in ErrBodies}

StatusText(a) == IF a.rejected THEN "rejected" ELSE ToString(a.status)

BodyText(a) == IF a.rejected THEN "" ELSE IF a.parses THEN "json" ELSE "unparsable"

\* fetch(url, init): the request is logged with its path, bearer and payload
Fetch(w, path, bearer, payload) ==
  {[w |-> [Log(w, [Event("fetch", path, bearer, payload)
                     EXCEPT !.res = StatusText(a)])
             EXCEPT !.now = t],
    ok |-> ~a.rejected,
    err |-> IF a.rejected THEN TransportError ELSE NoErr,
    val |-> a]
   : a \in Answers(path), t \in AnswerClock(path, w.now)}

\* the log, with what reading the body of the last answer gave
BodyRead(w, resp) == [w EXCEPT !.trace[Len(w.trace)].body = BodyText(resp)]

\* response.json()
ResponseJson(w, resp) ==
  IF resp.parses THEN Ret(BodyRead(w, resp), resp.body)
  ELSE Throw(BodyRead(w, resp), ParseError, EmptyBody)

(***************************************************************************)
(* MikroAuthClient: token management.                                      *)
(***************************************************************************)
\* saveTokens with the refresh token taken from the access token's field
saveTokens_SwappedField(w, tokens) ==
  LET tokenData == TokenData(tokens.accessToken,
                             tokens.accessToken,
                             tokens.expiresIn,
                             w.now + tokens.expiresIn * 1000,
                             OrElse(tokens.tokenType, "Bearer"))
  IN {IF s.ok THEN Ret(s.w, TRUE)
      ELSE Throw(s.w, ClientError("Failed to save tokens"), TRUE)
      : s \in StorageSetItem(w, tokenKey, JSONstringify(tokenData))}

\* saveTokens that keeps an expiresAt it is given (tokens.expiresAt ?? ...)
saveTokens_KeepSupplied(w, tokens) ==
  LET tokenData == TokenData(tokens.accessToken,
                             tokens.refreshToken,
                             tokens.expiresIn,
                             IF tokens.expiresAt # NoNum THEN tokens.expiresAt
                             ELSE w.now + tokens.expiresIn * 1000,
                             OrElse(tokens.tokenType, "Bearer"))
  IN {IF s.ok THEN Ret(s.w, TRUE)
      ELSE Throw(s.w, ClientError("Failed to save tokens"), TRUE)
      : s \in StorageSetItem(w, tokenKey, JSONstringify(tokenData))}

\* saveTokens with expiresIn taken as milliseconds
saveTokens_NoMillis(w, tokens) ==
  LET tokenData == TokenData(tokens.accessToken,
                             tokens.refreshToken,
                             tokens.expiresIn,
                             w.now + tokens.expiresIn,
                             OrElse(tokens.tokenType, "Bearer"))
  IN {IF s.ok THEN Ret(s.w, TRUE)
      ELSE Throw(s.w, ClientError("Failed to save tokens"), TRUE)
      : s \in StorageSetItem(w, tokenKey, JSONstringify(tokenData))}

saveTokens(w, tokens) ==
  LET tokenData == TokenData(tokens.accessToken,
                             tokens.refreshToken,
                             tokens.expiresIn,
                             w.now + tokens.expiresIn * 1000,
                             OrElse(tokens.tokenType, "Bearer"))
  IN {IF s.ok THEN Ret(s.w, TRUE)
      ELSE Throw(s.w, ClientError("Failed to save tokens"), TRUE)
      : s \in StorageSetItem(w, tokenKey, JSONstringify(tokenData))}

getTokens(w) ==
  {IF ~g.ok THEN Throw(g.w, ClientError("Failed to get tokens"), NullTokens)
   ELSE IF ~Truthy(g.val) THEN Ret(g.w, NullTokens)
   ELSE IF JSONparse(g.val).ok THEN Ret(g.w, JSONparse(g.val).val)
   ELSE Throw(g.w, ClientError("Failed to get tokens"), NullTokens)
   : g \in StorageGetItem(w, tokenKey)}

\* getAccessToken that reads the other field of the stored pair
getAccessToken_ReturnsRefresh(w) ==
  {IF ~t.ok THEN Throw(t.w, t.err, NULL)
   ELSE Ret(t.w, IF t.val.isNull THEN NULL ELSE t.val.refreshToken)
   : t \in getTokens(w)}

getAccessToken(w) ==
  {IF ~t.ok THEN Throw(t.w, t.err, NULL)
   ELSE Ret(t.w, IF t.val.isNull THEN NULL ELSE t.val.accessToken)
   : t \in getTokens(w)}

getRefreshToken(w) ==
  {IF ~t.ok THEN Throw(t.w, t.err, NULL)
   ELSE Ret(t.w, IF t.val.isNull THEN NULL ELSE t.val.refreshToken)
   : t \in getTokens(w)}

\* clearing by the adapter's clear() in place of removeItem(tokenKey)
clearTokens_ClearsAll(w) ==
  {IF r.ok THEN Ret(r.w, TRUE)
   ELSE Throw(r.w, ClientError("Failed to clear tokens"), TRUE)
   : r \in StorageClear(w)}

clearTokens(w) ==
  {IF r.ok THEN Ret(r.w, TRUE)
   ELSE Throw(r.w, ClientError("Failed to clear tokens"), TRUE)
   : r \in StorageRemoveItem(w, tokenKey)}

\* the comparison without the buffer
PastBuffer_NoBuffer(t, expiresAt) ==
  expiresAt # NoNum /\ t > expiresAt

\* the comparison with >= for >
PastBuffer_Inclusive(t, expiresAt) ==
  expiresAt # NoNum /\ t >= expiresAt - bufferInSeconds * 1000

\* Date.now() > tokens.expiresAt - bufferInSeconds * 1000
PastBuffer(t, expiresAt) ==
  expiresAt # NoNum /\ t > expiresAt - bufferInSeconds * 1000

isTokenExpired(w) ==
  {IF ~t.ok THEN Throw(t.w, t.err, FALSE)
   ELSE IF t.val.isNull THEN Ret(t.w, TRUE)
   ELSE Ret(t.w, PastBuffer(t.w.now, t.val.expiresAt))
   : t \in getTokens(w)}

(***************************************************************************)
(* MikroAuthClient: the identity in the access token.  The library calls   *)
(* of parseToken are given by what they do on the tokens of the model:     *)
(*   hdr.eyJzdWIiOiJhQGIuY29tIn0.sig   payload {"sub":"a@b.com"}            *)
(*   hdr.eyJzdWIiOiJhQGIuY29tIn0       the same, without a signature        *)
(*   hdr.bnVsbA.sig                    payload null                        *)
(*   hdr.bm90IGpzb24.sig               payload text 'not json'             *)
(*   hdr.@@@.sig                       payload segment that is not base64  *)
(*   a1, a2                            opaque tokens of one segment        *)
(***************************************************************************)
JwtUser == "hdr.eyJzdWIiOiJhQGIuY29tIn0.sig"
JwtUnsigned == "hdr.eyJzdWIiOiJhQGIuY29tIn0"
JwtNullPayload == "hdr.bnVsbA.sig"
JwtNotJson == "hdr.bm90IGpzb24.sig"
JwtNotBase64 == "hdr.@@@.sig"

\* token.split('.')
Split(token) ==
  CASE token = JwtUser -> <<"hdr", "eyJzdWIiOiJhQGIuY29tIn0", "sig">>
    [] token = JwtUnsigned -> <<"hdr", "eyJzdWIiOiJhQGIuY29tIn0">>
    [] token = JwtNullPayload -> <<"hdr", "bnVsbA", "sig">>
    [] token = JwtNotJson -> <<"hdr", "bm90IGpzb24", "sig">>
    [] token = JwtNotBase64 -> <<"hdr", "@@@", "sig">>
    [] OTHER -> <<token>>

\* decodeURIComponent(atob(base64)...): the text, or a throw
Atob(base64) ==
  CASE base64 = "eyJzdWIiOiJhQGIuY29tIn0" -> [ok |-> TRUE, text |-> "{sub:a@b.com}"]
    [] base64 = "bnVsbA" -> [ok |-> TRUE, text |-> "null"]
    [] base64 = "bm90IGpzb24" -> [ok |-> TRUE, text |-> "not json"]
    [] OTHER -> [ok |-> FALSE, text |-> ""]

NoPayload == [isNull |-> TRUE, sub |-> UNDEF, lastLogin |-> UNDEF, metadata |-> UNDEF]

\* JSON.parse(jsonPayload): the payload, null, or a throw
JSONparsePayload(text) ==
  CASE text = "{sub:a@b.com}" ->
         [ok |-> TRUE,
          val |-> [isNull |-> FALSE, sub |-> "a@b.com", lastLogin |-> UNDEF,
                   metadata |-> UNDEF]]
    [] text = "null" -> [ok |-> TRUE, val |-> NoPayload]
    [] OTHER -> [ok |-> FALSE, val |-> NoPayload]

\* parseToken that decodes the first segment
parseToken_FirstSegment(token) ==
  IF Falsy(token) THEN NoPayload
  ELSE IF ~Atob(Split(token)[1]).ok THEN NoPayload
  ELSE IF ~JSONparsePayload(Atob(Split(token)[1]).text).ok THEN NoPayload
  ELSE JSONparsePayload(Atob(Split(token)[1]).text).val

\* every throw inside the try block (no second segment: undefined.replace;
\* atob; decodeURIComponent; JSON.parse) is caught and gives null
parseToken(token) ==
  IF Falsy(token) THEN NoPayload
  ELSE IF Len(Split(token)) < 2 THEN NoPayload
  ELSE IF ~Atob(Split(token)[2]).ok THEN NoPayload
  ELSE IF ~JSONparsePayload(Atob(Split(token)[2]).text).ok THEN NoPayload
  ELSE JSONparsePayload(Atob(Split(token)[2]).text).val

NoUser == [isNull |-> TRUE, email |-> UNDEF, lastLogin |-> UNDEF, metadata |-> UNDEF]

UserInfo(payload) ==
  [isNull |-> FALSE, email |-> payload.sub, lastLogin |-> payload.lastLogin,
   metadata |-> payload.metadata]

\* getUserInfo without `if (!payload) return null`: payload.sub of null throws
getUserInfo_NoPayloadCheck(w) ==
  {IF ~a.ok THEN Throw(a.w, a.err, NoUser)
   ELSE IF Falsy(a.val) THEN Ret(a.w, NoUser)
   ELSE IF parseToken(a.val).isNull
     THEN Throw(a.w, [msg |-> "TypeError: Cannot read properties of null",
                      origin |-> "runtime"], NoUser)
   ELSE Ret(a.w, UserInfo(parseToken(a.val)))
   : a \in getAccessToken(w)}

getUserInfo(w) ==
  {IF ~a.ok THEN Throw(a.w, a.err, NoUser)
   ELSE IF Falsy(a.val) THEN Ret(a.w, NoUser)
   ELSE IF parseToken(a.val).isNull THEN Ret(a.w, NoUser)
   ELSE Ret(a.w, UserInfo(parseToken(a.val)))
   : a \in getAccessToken(w)}

(***************************************************************************)
(* MikroAuthClient: calls to the endpoint.                                 *)
(***************************************************************************)
\* new Error(error.message || fallback)
ErrorFrom(message, fallback) ==
  IF Falsy(message) THEN ClientError(fallback)
  ELSE [msg |-> message, origin |-> "server"]

\* `if (!response.ok) { const error = await response.json(); throw ... }`
ThrowErrorBody(w, resp, fallback) ==
  IF ResponseJson(w, resp).ok
  THEN Throw(ResponseJson(w, resp).w,
             ErrorFrom(ResponseJson(w, resp).val.message, fallback), EmptyBody)
  ELSE ResponseJson(w, resp)

\* requestMagicLink that drops the session when the request fails, as
\* refreshToken does
requestMagicLink_ClearsOnFailure(w, email) ==
  Bind(Fetch(w, "/login", "", email), LAMBDA f :
    IF ~f.ok
      THEN {Throw(c.w, f.err, EmptyBody) : c \in clearTokens(f.w)}
    ELSE IF ~IsOk(f.val.status)
      THEN {Throw(c.w, ThrowErrorBody(f.w, f.val, "Failed to request magic link").err, EmptyBody)
            : c \in clearTokens(f.w)}
    ELSE {ResponseJson(f.w, f.val)})

requestMagicLink(w, email) ==
  Bind(Fetch(w, "/login", "", email), LAMBDA f :
    IF ~f.ok THEN {Throw(f.w, f.err, EmptyBody)}
    ELSE IF ~IsOk(f.val.status)
      THEN {ThrowErrorBody(f.w, f.val, "Failed to request magic link")}
    ELSE {ResponseJson(f.w, f.val)})

verifyToken(w, token, email) ==
  Bind(Fetch(w, "/verify", token, email), LAMBDA f :
    IF ~f.ok THEN {Throw(f.w, f.err, EmptyBody)}
    ELSE IF ~IsOk(f.val.status)
      THEN {ThrowErrorBody(f.w, f.val, "Failed to verify token")}
    ELSE IF ~ResponseJson(f.w, f.val).ok THEN {ResponseJson(f.w, f.val)}
    ELSE {IF s.ok THEN Ret(s.w, f.val.body) ELSE Throw(s.w, s.err, EmptyBody)
          : s \in saveTokens(ResponseJson(f.w, f.val).w, ResponseJson(f.w, f.val).val)})

\* the try block of refreshToken
RefreshTry(w, rt) ==
  Bind(Fetch(w, "/refresh", "", rt), LAMBDA f :
    IF ~f.ok THEN {Throw(f.w, f.err, EmptyBody)}
    ELSE IF ~IsOk(f.val.status)
      THEN {Throw(f.w, ClientError("Failed to refresh token"), EmptyBody)}
    ELSE IF ~ResponseJson(f.w, f.val).ok THEN {ResponseJson(f.w, f.val)}
    ELSE {IF s.ok THEN Ret(s.w, f.val.body) ELSE Throw(s.w, s.err, EmptyBody)
          : s \in saveTokens(ResponseJson(f.w, f.val).w, ResponseJson(f.w, f.val).val)})

\* a catch block that rethrows without clearing
ClearAndRethrow_NoClear(t) == {Throw(t.w, t.err, EmptyBody)}

\* `catch (error) { await this.clearTokens(); throw error; }`
ClearAndRethrow(t) ==
  {IF c.ok THEN Throw(c.w, t.err, EmptyBody) ELSE Throw(c.w, c.err, EmptyBody)
   : c \in clearTokens(t.w)}

\* refreshToken without the check of the stored refresh token
refreshToken_NoCheck(w) ==
  Bind(getRefreshToken(w), LAMBDA g :
    IF ~g.ok THEN {Throw(g.w, g.err, EmptyBody)}
    ELSE Bind(RefreshTry(g.w, g.val), LAMBDA t :
      IF t.ok THEN {t} ELSE ClearAndRethrow(t)))

refreshToken(w) ==
  Bind(getRefreshToken(w), LAMBDA g :
    IF ~g.ok THEN {Throw(g.w, g.err, EmptyBody)}
    ELSE IF Falsy(g.val)
      THEN {Throw(g.w, ClientError("No refresh token available"), EmptyBody)}
    ELSE Bind(RefreshTry(g.w, g.val), LAMBDA t :
      IF t.ok THEN {t} ELSE ClearAndRethrow(t)))

\* isAuthenticated that answers true as soon as the refresh has succeeded
isAuthenticated_TrustsRefresh(w) ==
  Bind(getAccessToken(w), LAMBDA a :
    IF ~a.ok THEN {Throw(a.w, a.err, FALSE)}
    ELSE IF Falsy(a.val) THEN {Ret(a.w, FALSE)}
    ELSE Bind(isTokenExpired(a.w), LAMBDA e :
      IF ~e.ok THEN {Throw(e.w, e.err, FALSE)}
      ELSE IF ~e.val THEN {Ret(e.w, TRUE)}
      ELSE {Ret(r.w, r.ok) : r \in refreshToken(e.w)}))

isAuthenticated(w) ==
  Bind(getAccessToken(w), LAMBDA a :
    IF ~a.ok THEN {Throw(a.w, a.err, FALSE)}
    ELSE IF Falsy(a.val) THEN {Ret(a.w, FALSE)}
    ELSE Bind(isTokenExpired(a.w), LAMBDA e :
      IF ~e.ok THEN {Throw(e.w, e.err, FALSE)}
      ELSE IF ~e.val THEN {Ret(e.w, TRUE)}
      ELSE Bind(refreshToken(e.w), LAMBDA r :
        IF ~r.ok THEN {Ret(r.w, FALSE)}
        ELSE {IF g.ok THEN Ret(g.w, ~Falsy(g.val)) ELSE Ret(g.w, FALSE)
              : g \in getAccessToken(r.w)})))

\* a try block that returns the server's answer without clearing
LogoutTry_NoClear(w, at, rt) ==
  Bind(Fetch(w, "/logout", at, rt), LAMBDA f :
    IF ~f.ok THEN {Throw(f.w, f.err, EmptyBody)}
    ELSE IF ~IsOk(f.val.status)
      THEN {Throw(f.w, ClientError("Failed to logout"), EmptyBody)}
    ELSE {ResponseJson(f.w, f.val)})

\* the try block of logout
LogoutTry(w, at, rt) ==
  Bind(Fetch(w, "/logout", at, rt), LAMBDA f :
    IF ~f.ok THEN {Throw(f.w, f.err, EmptyBody)}
    ELSE IF ~IsOk(f.val.status)
      THEN {Throw(f.w, ClientError("Failed to logout"), EmptyBody)}
    ELSE IF ~ResponseJson(f.w, f.val).ok THEN {ResponseJson(f.w, f.val)}
    ELSE {IF c.ok THEN Ret(c.w, ResponseJson(f.w, f.val).val) ELSE Throw(c.w, c.err, EmptyBody)
          : c \in clearTokens(ResponseJson(f.w, f.val).w)})

\* logout that calls the endpoint whatever is stored
logout_NoLocalPath(w) ==
  Bind(getRefreshToken(w), LAMBDA r :
    IF ~r.ok THEN {Throw(r.w, r.err, EmptyBody)}
    ELSE Bind(getAccessToken(r.w), LAMBDA a :
      IF ~a.ok THEN {Throw(a.w, a.err, EmptyBody)}
      ELSE Bind(LogoutTry(a.w, a.val, r.val), LAMBDA t :
        IF t.ok THEN {t} ELSE ClearAndRethrow(t))))

logout(w) ==
  Bind(getRefreshToken(w), LAMBDA r :
    IF ~r.ok THEN {Throw(r.w, r.err, EmptyBody)}
    ELSE Bind(getAccessToken(r.w), LAMBDA a :
      IF ~a.ok THEN {Throw(a.w, a.err, EmptyBody)}
      ELSE IF Falsy(r.val) \/ Falsy(a.val)
        THEN {IF c.ok THEN Ret(c.w, MessageBody("Logged out successfully"))
              ELSE Throw(c.w, c.err, EmptyBody)
              : c \in clearTokens(a.w)}
      ELSE Bind(LogoutTry(a.w, a.val, r.val), LAMBDA t :
        IF t.ok THEN {t} ELSE ClearAndRethrow(t))))

\* the requests the call has issued so far
RequestsIn(w) == Len(SelectSeq(w.trace, LAMBDA e : e.ev = "fetch"))

\* getSessions retrying with the access token it read before the refresh
getSessions_RetriesWithOldToken(w) ==
  Bind(getAccessToken(w), LAMBDA a :
    IF ~a.ok THEN {Throw(a.w, a.err, EmptyBody)}
    ELSE IF Falsy(a.val) THEN {Throw(a.w, ClientError("Not authenticated"), EmptyBody)}
    ELSE Bind(Fetch(a.w, "/sessions", a.val, ""), LAMBDA f :
      IF ~f.ok THEN {Throw(f.w, f.err, EmptyBody)}
      ELSE IF IsOk(f.val.status) THEN {ResponseJson(f.w, f.val)}
      ELSE IF f.val.status = 401
        THEN Bind(refreshToken(f.w), LAMBDA r :
               IF ~r.ok THEN {Throw(r.w, ClientError("Authentication failed"), EmptyBody)}
               ELSE Bind(Fetch(r.w, "/sessions", a.val, ""), LAMBDA g :
                 IF ~g.ok THEN {Throw(g.w, g.err, EmptyBody)}
                 ELSE IF IsOk(g.val.status) THEN {ResponseJson(g.w, g.val)}
                 ELSE {Throw(g.w, ClientError("Failed to get sessions"), EmptyBody)}))
      ELSE {Throw(f.w, ClientError("Failed to get sessions"), EmptyBody)}))

RECURSIVE getSessions(_)
\* the rejection of the recursive call's promise passes the try block by (the
\* promise is returned, not awaited)
getSessions(w) ==
  Bind(getAccessToken(w), LAMBDA a :
    IF ~a.ok THEN {Throw(a.w, a.err, EmptyBody)}
    ELSE IF Falsy(a.val) THEN {Throw(a.w, ClientError("Not authenticated"), EmptyBody)}
    ELSE IF RequestsIn(a.w) >= MaxRequests THEN {Throw(a.w, CutOff, EmptyBody)}
    ELSE Bind(Fetch(a.w, "/sessions", a.val, ""), LAMBDA f :
      IF ~f.ok THEN {Throw(f.w, f.err, EmptyBody)}
      ELSE IF IsOk(f.val.status) THEN {ResponseJson(f.w, f.val)}
      ELSE IF f.val.status = 401
        THEN IF RequestsIn(f.w) >= MaxRequests THEN {Throw(f.w, CutOff, EmptyBody)}
             ELSE Bind(refreshToken(f.w), LAMBDA r :
               IF ~r.ok THEN {Throw(r.w, ClientError("Authentication failed"), EmptyBody)}
               ELSE getSessions(r.w))
      ELSE {Throw(f.w, ClientError("Failed to get sessions"), EmptyBody)}))

(***************************************************************************)
(* MikroAuthClient: the magic link in the visible location.                *)
(***************************************************************************)
\* window?.history?.replaceState({}, document?.title, window?.location?.pathname):
\* the query string is gone ("ok"), the call throws ("threw": a SecurityError,
\* no document), or there is no history to call ("none")
ReplaceState(w) ==
  {Ret([Log(w, [Event("replaceState", "", "", "") EXCEPT !.res = "ok"])
          EXCEPT !.search = NoSearch], TRUE),
   Throw(Log(w, [Event("replaceState", "", "", "") EXCEPT !.res = "threw"]),
         [msg |-> "SecurityError", origin |-> "history"], FALSE),
   Ret(Log(w, [Event("replaceState", "", "", "") EXCEPT !.res = "none"]), TRUE)}

\* console.error('Magic link verification failed:', error)
ConsoleError(w) == Log(w, Event("console.error", "", "", ""))

\* handleMagicLink without the check of the parameters
handleMagicLink_NoParamCheck(w) ==
  Bind(verifyToken(w, w.search.token, w.search.email), LAMBDA v :
    IF ~v.ok THEN {Ret(ConsoleError(v.w), FALSE)}
    ELSE {IF h.ok THEN Ret(h.w, TRUE) ELSE Ret(ConsoleError(h.w), FALSE)
          : h \in ReplaceState(v.w)})

\* handleMagicLink with the URL cleaned before the token is verified
handleMagicLink_CleanFirst(w) ==
  IF Falsy(w.search.token) \/ Falsy(w.search.email) THEN {Ret(w, FALSE)}
  ELSE Bind(ReplaceState(w), LAMBDA h :
    IF ~h.ok THEN {Ret(ConsoleError(h.w), FALSE)}
    ELSE {IF v.ok THEN Ret(v.w, TRUE) ELSE Ret(ConsoleError(v.w), FALSE)
          : v \in verifyToken(h.w, w.search.token, w.search.email)})

handleMagicLink(w) ==
  IF Falsy(w.search.token) \/ Falsy(w.search.email) THEN {Ret(w, FALSE)}
  ELSE Bind(verifyToken(w, w.search.token, w.search.email), LAMBDA v :
    IF ~v.ok THEN {Ret(ConsoleError(v.w), FALSE)}
    ELSE {IF h.ok THEN Ret(h.w, TRUE) ELSE Ret(ConsoleError(h.w), FALSE)
          : h \in ReplaceState(v.w)})

(***************************************************************************)
(* The state machine: the store, the clock, and the record of the last     *)
(* call (what it was given, the world before it, what it returned or threw *)
(* and what it did to the adapter and the endpoint).                       *)
(***************************************************************************)
World == [storage |-> storage, now |-> now, trace |-> <<>>, search |-> NoSearch]

\* the store after construction: nothing under the client's key, and what the
\* application keeps under its own
InitStorage == [k \in Keys |-> IF k = tokenKey THEN NullItem ELSE GarbageItem]

\* what a call returned, by the type of its result: boolean, string | null,
\* TokenData | null, or the body of a response
NoVal ==
  [b |-> FALSE, s |-> NULL, tokens |-> NullTokens, body |-> EmptyBody, user |-> NoUser]
UserVal(v) == [NoVal EXCEPT !.user = v]
BoolVal(v) == [NoVal EXCEPT !.b = v]
StrVal(v) == [NoVal EXCEPT !.s = v]
TokensVal(v) == [NoVal EXCEPT !.tokens = v]
BodyVal(v) == [NoVal EXCEPT !.body = v]

\* no call is under way: the caller has taken the last call's result
Idle ==
  [op |-> "idle", arg |-> [tokens |-> EmptyBody, token |-> "", email |-> ""],
   pre |-> [storage |-> InitStorage, now |-> 0, removed |-> EmptyBody],
   ok |-> TRUE, err |-> NoErr, val |-> NoVal, trace |-> <<>>,
   search |-> NoSearch]

IsIdle == last.op = "idle"

NoArg == [tokens |-> EmptyBody, token |-> "", email |-> ""]

Finish(op, arg, o, v) ==
  /\ storage' = o.w.storage
  /\ now' = o.w.now
  /\ last' = [op |-> op, arg |-> arg,
              pre |-> [storage |-> storage, now |-> now,
                       removed |-> last.arg.tokens],
              ok |-> o.ok, err |-> o.err, val |-> v, trace |-> o.w.trace,
              search |-> o.w.search]
  /\ UNCHANGED calls

\* what a caller passes to saveTokens
AccessTokens == {"", "a1"}
RefreshTokens == {"", "r1"}
ExpiresInValues == {9, 10, 20}
CallerTokens ==
  {TokenBody(a, r, e, NoNum, UNDEF) :
     a \in AccessTokens, r \in RefreshTokens, e \in ExpiresInValues}

LinkTokens == {"tok"}
Emails == {"a@b.com"}

\* the query strings a page is opened with: ?other=param, ?token=, ?token=tok,
\* ?email=a@b.com, ?token=tok&email=a@b.com, ...
Searches ==
  {Search(t, e) : t \in {NULL, ""} \cup LinkTokens, e \in {NULL, ""} \cup Emails}

\* the calls that can be under way together (the steps of overlapping calls
\* are followed in SpecOverlap; everywhere else a call runs alone, to its end)
Procs == {"c1", "c2"}

\* a call that has not been made: kind is the method, pc the await the call
\* is suspended at, expired what isTokenExpired() answered, rt the refresh
\* token the call read, sent the requests it issued, saved what its
\* saveTokens stored, cleared whether its clearTokens removed the key, ok
\* and b its outcome, with the calls it overlapped
NoCall ==
  [kind |-> "none", pc |-> "idle", expired |-> FALSE, rt |-> NULL,
   sent |-> <<>>, saved |-> NullItem, cleared |-> FALSE,
   ok |-> TRUE, b |-> FALSE, with |-> {}]

NoCalls == [c \in Procs |-> NoCall]

Init ==
  /\ storage = InitStorage
  /\ now = 0
  /\ last = Idle
  /\ calls = NoCalls

SaveTokens ==
  /\ IsIdle
  /\ \E tokens \in CallerTokens :
       \E o \in saveTokens(World, tokens) :
         Finish("saveTokens", [NoArg EXCEPT !.tokens = tokens], o, NoVal)

GetTokens ==
  /\ IsIdle
  /\ \E o \in getTokens(World) : Finish("getTokens", NoArg, o, TokensVal(o.val))

GetAccessToken ==
  /\ IsIdle
  /\ \E o \in getAccessToken(World) : Finish("getAccessToken", NoArg, o, StrVal(o.val))

GetRefreshToken ==
  /\ IsIdle
  /\ \E o \in getRefreshToken(World) : Finish("getRefreshToken", NoArg, o, StrVal(o.val))

ClearTokens ==
  /\ IsIdle
  /\ \E o \in clearTokens(World) : Finish("clearTokens", NoArg, o, NoVal)

IsTokenExpired ==
  /\ IsIdle
  /\ \E o \in isTokenExpired(World) : Finish("isTokenExpired", NoArg, o, BoolVal(o.val))

IsAuthenticated ==
  /\ IsIdle
  /\ \E o \in isAuthenticated(World) : Finish("isAuthenticated", NoArg, o, BoolVal(o.val))

RequestMagicLink ==
  /\ IsIdle
  /\ \E email \in Emails :
       \E o \in requestMagicLink(World, email) :
         Finish("requestMagicLink", [NoArg EXCEPT !.email = email], o, BodyVal(o.val))

VerifyToken ==
  /\ IsIdle
  /\ \E token \in LinkTokens, email \in Emails :
       \E o \in verifyToken(World, token, email) :
         Finish("verifyToken", [NoArg EXCEPT !.token = token, !.email = email], o, BodyVal(o.val))

RefreshToken ==
  /\ IsIdle
  /\ \E o \in refreshToken(World) : Finish("refreshToken", NoArg, o, BodyVal(o.val))

Logout ==
  /\ IsIdle
  /\ \E o \in logout(World) : Finish("logout", NoArg, o, BodyVal(o.val))

GetSessions ==
  /\ IsIdle
  /\ \E o \in getSessions(World) : Finish("getSessions", NoArg, o, BodyVal(o.val))

GetUserInfo ==
  /\ IsIdle
  /\ \E o \in getUserInfo(World) : Finish("getUserInfo", NoArg, o, UserVal(o.val))

HandleMagicLink ==
  /\ IsIdle
  /\ \E q \in Searches :
       \E o \in handleMagicLink([World EXCEPT !.search = q]) :
         Finish("handleMagicLink", [NoArg EXCEPT !.token = q.token, !.email = q.email],
                o, BoolVal(o.val))

\* time passes between calls
Tick ==
  /\ IsIdle
  /\ \E t \in LaterClock(now) : now' = t
  /\ last' = Idle
  /\ UNCHANGED <<storage, calls>>

\* another tab or the user changes what the browser stores under the key
ExternalWrite ==
  /\ IsIdle
  /\ \E v \in {NullItem, EmptyItem, GarbageItem} :
       /\ storage[tokenKey] # v
       /\ storage' = [storage EXCEPT ![tokenKey] = v]
  /\ last' = Idle
  /\ UNCHANGED <<now, calls>>

\* the caller takes the result of the call; the next call can be made
Return ==
  /\ ~IsIdle
  /\ last' = Idle
  /\ UNCHANGED <<storage, now, calls>>

Next ==
  \/ SaveTokens
  \/ GetTokens
  \/ GetAccessToken
  \/ GetRefreshToken
  \/ ClearTokens
  \/ IsTokenExpired
  \/ IsAuthenticated
  \/ RequestMagicLink
  \/ VerifyToken
  \/ RefreshToken
  \/ Logout
  \/ GetSessions
  \/ GetUserInfo
  \/ HandleMagicLink
  \/ Tick
  \/ ExternalWrite
  \/ Return

Spec == Init /\ [][Next]_vars

(***************************************************************************)
(* A pair is saved and time passes: the lifetimes and the instants at      *)
(* which the expiry of a saved pair is looked at.                          *)
(***************************************************************************)
\* lifetimes in seconds: the buffer itself, twice the buffer, one hour
ScenarioExpiresIn == {bufferInSeconds, 2 * bufferInSeconds, 3600}

ScenarioTokens == {TokenBody("a1", "r1", e, NoNum, UNDEF) : e \in ScenarioExpiresIn}

\* the instants (ms) at which a pair is saved
SaveInstants == {0, 1000}

\* around a save at T with lifetime E: T + 10 s, the instants next to
\* T + E - 10 s, 5 ms before T + E, T + E and the instant after it
ExpiryClock ==
  {t \in SaveInstants \cup
         UNION {{T + 10000,
                 T + E * 1000 - bufferInSeconds * 1000 - 1,
                 T + E * 1000 - bufferInSeconds * 1000,
                 T + E * 1000 - bufferInSeconds * 1000 + 1,
                 T + E * 1000 - 5,
                 T + E * 1000,
                 T + E * 1000 + 1} : T \in SaveInstants, E \in ScenarioExpiresIn} :
     t >= 0}

SaveScenarioTokens ==
  /\ IsIdle
  /\ now \in SaveInstants
  /\ \E tokens \in ScenarioTokens :
       \E o \in saveTokens(World, tokens) :
         Finish("saveTokens", [NoArg EXCEPT !.tokens = tokens], o, NoVal)

\* time passes, before a call or after it has returned
Wait ==
  /\ \E t \in ExpiryClock : t > now /\ now' = t
  /\ UNCHANGED <<storage, last, calls>>

NextExpiry ==
  \/ SaveScenarioTokens
  \/ Wait
  \/ IsTokenExpired
  \/ Return

SpecExpiry == Init /\ [][NextExpiry]_vars

(***************************************************************************)
(* Identity: pairs whose access token is a JWT, a broken JWT or an opaque  *)
(* token are stored, changed from outside, and the identity is asked for.  *)
(***************************************************************************)
JwtTokens == {"a1", JwtUser, JwtUnsigned, JwtNullPayload, JwtNotJson, JwtNotBase64}

JwtCallerTokens ==
  {TokenBody(a, r, e, NoNum, UNDEF) :
     a \in {""} \cup JwtTokens, r \in {"r1"}, e \in {9, 20}}

SaveJwtTokens ==
  /\ IsIdle
  /\ \E tokens \in JwtCallerTokens :
       \E o \in saveTokens(World, tokens) :
         Finish("saveTokens", [NoArg EXCEPT !.tokens = tokens], o, NoVal)

NextIdentity ==
  \/ SaveJwtTokens
  \/ GetUserInfo
  \/ ExternalWrite
  \/ Return

SpecIdentity == Init /\ [][NextIdentity]_vars

(***************************************************************************)
(* External removal: a pair is stored by the client, another tab removes   *)
(* the key between two calls, and the client is called again.  The idle    *)
(* record keeps the pair that was removed, and the record of the next call *)
(* has it as pre.removed.                                                  *)
(***************************************************************************)
ExternalRemoval ==
  /\ IsIdle
  /\ Truthy(storage[tokenKey]) /\ JSONparse(storage[tokenKey]).ok
  /\ storage' = [storage EXCEPT ![tokenKey] = NullItem]
  /\ last' = [Idle EXCEPT !.arg.tokens =
                LET t == JSONparse(storage[tokenKey]).val
                IN TokenBody(t.accessToken, t.refreshToken, t.expiresIn,
                             t.expiresAt, t.tokenType)]
  /\ UNCHANGED <<now, calls>>

NextExternal ==
  \/ SaveJwtTokens
  \/ ExternalRemoval
  \/ IsAuthenticated
  \/ GetUserInfo
  \/ RefreshToken
  \/ GetSessions
  \/ Return

SpecExternal == Init /\ [][NextExternal]_vars

(***************************************************************************)
(* Overlapping calls.  The embedding application calls refreshToken() or   *)
(* isAuthenticated() again while an earlier call is suspended at an await. *)
(* A call runs from one await to the next in one step: each step is one    *)
(* adapter call, or the answer of the endpoint together with what the      *)
(* method does with it before it is suspended again (the save of the new   *)
(* pair, or the clear of the catch block).                                 *)
(***************************************************************************)
\* the pairs the session starts with: an access token, a refresh token or
\* none, expired from the start (9 s) or from 10 s on (20 s)
OverlapTokens ==
  {t \in CallerTokens : t.accessToken = "a1" /\ t.expiresIn \in {9, 20}}

SaveOverlapTokens ==
  /\ IsIdle
  /\ calls = NoCalls
  /\ \E tokens \in OverlapTokens :
       \E o \in saveTokens(World, tokens) :
         Finish("saveTokens", [NoArg EXCEPT !.tokens = tokens], o, NoVal)

\* the calls that are suspended at an await
Pending(cs) == {d \in Procs : cs[d].pc \notin {"idle", "done"}}

\* call c of a method begins while the calls of Pending are under way
Begin(cs, c, kind) ==
  [d \in Procs |->
     IF d = c THEN [cs[c] EXCEPT !.kind = kind, !.with = Pending(cs)]
     ELSE IF d \in Pending(cs) THEN [cs[d] EXCEPT !.with = @ \cup {c}]
     ELSE cs[d]]

\* refreshToken() threw: in isAuthenticated the catch block returns false
RefreshFailed(cs, c) ==
  IF cs[c].kind = "isAuthenticated"
  THEN [cs EXCEPT ![c].pc = "done", ![c].ok = TRUE, ![c].b = FALSE]
  ELSE [cs EXCEPT ![c].pc = "done", ![c].ok = FALSE]

\* fetch(`${this.authUrl}/refresh`, {body: JSON.stringify({refreshToken})})
\* as the call issues it
RefreshRequest(rt) == Event("fetch", "/refresh", "", rt)

\* a refresh that joins the request of a call that is already waiting for
\* /refresh, sending nothing itself
IssueRefresh_SingleFlight(cs, c, g) ==
  IF ~g.ok \/ Falsy(g.val) THEN RefreshFailed(cs, c)
  ELSE IF \E d \in Procs \ {c} : cs[d].pc = "fetch"
    THEN [cs EXCEPT ![c].pc = "fetch", ![c].rt = g.val]
  ELSE [cs EXCEPT ![c].pc = "fetch", ![c].rt = g.val,
                  ![c].sent = Append(@, RefreshRequest(g.val))]

\* refreshToken() from its read of the refresh token (g, the outcome of
\* getRefreshToken) to `await fetch(...)`: the request is on its way
IssueRefresh(cs, c, g) ==
  IF ~g.ok \/ Falsy(g.val) THEN RefreshFailed(cs, c)
  ELSE [cs EXCEPT ![c].pc = "fetch", ![c].rt = g.val,
                  ![c].sent = Append(@, RefreshRequest(g.val))]

\* refreshToken() is called
CallRefreshToken(c) ==
  /\ IsIdle
  /\ calls[c].pc = "idle"
  /\ \E g \in getRefreshToken(World) :
       /\ calls' = IssueRefresh(Begin(calls, c, "refreshToken"), c, g)
       /\ storage' = g.w.storage
       /\ now' = g.w.now
  /\ UNCHANGED last

\* isAuthenticated() is called: `if (!(await this.getAccessToken())) return false`
CallIsAuthenticated(c) ==
  /\ IsIdle
  /\ calls[c].pc = "idle"
  /\ \E a \in getAccessToken(World) :
       /\ calls' =
            LET cs == Begin(calls, c, "isAuthenticated")
            IN  IF ~a.ok THEN [cs EXCEPT ![c].pc = "done", ![c].ok = FALSE]
                ELSE IF Falsy(a.val)
                  THEN [cs EXCEPT ![c].pc = "done", ![c].b = FALSE]
                ELSE [cs EXCEPT ![c].pc = "isTokenExpired"]
       /\ storage' = a.w.storage
       /\ now' = a.w.now
  /\ UNCHANGED last

\* `if (await this.isTokenExpired())`
AwaitIsTokenExpired(c) ==
  /\ IsIdle
  /\ calls[c].pc = "isTokenExpired"
  /\ \E e \in isTokenExpired(World) :
       /\ calls' =
            IF ~e.ok THEN [calls EXCEPT ![c].pc = "done", ![c].ok = FALSE]
            ELSE IF ~e.val THEN [calls EXCEPT ![c].pc = "done", ![c].b = TRUE]
            ELSE [calls EXCEPT ![c].pc = "refreshToken", ![c].expired = TRUE]
       /\ storage' = e.w.storage
       /\ now' = e.w.now
  /\ UNCHANGED last

\* `await this.refreshToken()` in isAuthenticated, up to its request
AwaitRefreshToken(c) ==
  /\ IsIdle
  /\ calls[c].pc = "refreshToken"
  /\ \E g \in getRefreshToken(World) :
       /\ calls' = IssueRefresh(calls, c, g)
       /\ storage' = g.w.storage
       /\ now' = g.w.now
  /\ UNCHANGED last

\* the removeItem of a clearTokens went through
Removed(o) ==
  \E i \in 1..Len(o.w.trace) :
    o.w.trace[i].ev = "removeItem" /\ o.w.trace[i].res = "ok"

\* the request is answered: the rest of the try block, and the catch block
\* when it throws
AwaitFetch(c) ==
  /\ IsIdle
  /\ calls[c].pc = "fetch"
  /\ \E t \in RefreshTry(World, calls[c].rt) :
       IF t.ok
       THEN /\ calls' =
                 IF calls[c].kind = "isAuthenticated"
                 THEN [calls EXCEPT ![c].pc = "getAccessToken",
                                    ![c].saved = t.w.storage[tokenKey]]
                 ELSE [calls EXCEPT ![c].pc = "done", ![c].ok = TRUE,
                                    ![c].saved = t.w.storage[tokenKey]]
            /\ storage' = t.w.storage
            /\ now' = t.w.now
       ELSE \E x \in ClearAndRethrow(t) :
              /\ calls' = [RefreshFailed(calls, c) EXCEPT ![c].cleared = Removed(x)]
              /\ storage' = x.w.storage
              /\ now' = x.w.now
  /\ UNCHANGED last

\* `return !!(await this.getAccessToken())`
AwaitGetAccessToken(c) ==
  /\ IsIdle
  /\ calls[c].pc = "getAccessToken"
  /\ \E g \in getAccessToken(World) :
       /\ calls' = [calls EXCEPT ![c].pc = "done", ![c].ok = TRUE,
                                 ![c].b = g.ok /\ ~Falsy(g.val)]
       /\ storage' = g.w.storage
       /\ now' = g.w.now
  /\ UNCHANGED last

\* the application has the results of the calls it made
TakeResults ==
  /\ Pending(calls) = {}
  /\ calls # NoCalls
  /\ calls' = NoCalls
  /\ UNCHANGED <<storage, now, last>>

NextOverlap ==
  \/ SaveOverlapTokens
  \/ Return
  \/ Tick
  \/ \E c \in Procs : CallRefreshToken(c)
  \/ \E c \in Procs : CallIsAuthenticated(c)
  \/ \E c \in Procs : AwaitIsTokenExpired(c)
  \/ \E c \in Procs : AwaitRefreshToken(c)
  \/ \E c \in Procs : AwaitFetch(c)
  \/ \E c \in Procs : AwaitGetAccessToken(c)
  \/ TakeResults

SpecOverlap == Init /\ [][NextOverlap]_vars

(***************************************************************************)
(* What the last call did, read from its record.                           *)
(***************************************************************************)
Called(op) == last.op = op

\* the call ran to its end (the model followed it to its return or throw)
Finished(op) == last.op = op /\ last.err # CutOff

Failed(op) == Finished(op) /\ ~last.ok

Requests(path) == SelectSeq(last.trace, LAMBDA e : e.ev = "fetch" /\ e.target = path)

AllRequests == SelectSeq(last.trace, LAMBDA e : e.ev = "fetch")

AdapterCalls(ev) == SelectSeq(last.trace, LAMBDA e : e.ev = ev)

AdapterFailures == SelectSeq(last.trace, LAMBDA e : e.ev # "fetch" /\ e.res = "failed")

LastEvent == last.trace[Len(last.trace)]

\* what the key held before the call, and as getTokens would have read it
PreItem == last.pre.storage[tokenKey]

PreTokens == IF Truthy(PreItem) /\ JSONparse(PreItem).ok THEN JSONparse(PreItem).val ELSE NullTokens

\* both tokens were stored before the call
PreBothTokens == ~Falsy(PreTokens.accessToken) /\ ~Falsy(PreTokens.refreshToken)

\* the outcome of a call issued now, the adapter answering its read
AdapterAnswered(o) == \A i \in 1..Len(o.w.trace) : o.w.trace[i].res # "failed"

TokensNow == CHOOSE o \in getTokens(World) : AdapterAnswered(o)

AccessTokenNow == CHOOSE o \in getAccessToken(World) : AdapterAnswered(o)

RefreshTokenNow == CHOOSE o \in getRefreshToken(World) : AdapterAnswered(o)

ExpiredNow == CHOOSE o \in isTokenExpired(World) : AdapterAnswered(o)

\* a getTokens() issued now returns absent
ReturnsAbsentNow == TokensNow.ok /\ TokensNow.val.isNull

(***************************************************************************)
(* C1.  refresh() failures and the stored session.                         *)
(***************************************************************************)
\* the failures the claim lists: no stored refresh token, network error,
\* non-2xx from /refresh, failure to persist the new pair
C1_ListedFailure ==
  /\ Failed("refreshToken")
  /\ \/ last.err = ClientError("No refresh token available")
     \/ last.err = TransportError
     \/ last.err = ClientError("Failed to refresh token")
     \/ last.err = ClientError("Failed to save tokens")

\* C1 as stated: after every listed failure of refresh() the session is
\* cleared, so a getTokens() issued after the failed call returns absent.
C1_FailedRefreshReturnsAbsent == C1_ListedFailure => ReturnsAbsentNow

\* the failure was raised after a refresh token had been read (inside the try
\* block) and the removal that followed was carried out by the adapter
C1_FailedAfterRead ==
  /\ Failed("refreshToken")
  /\ last.err # ClientError("No refresh token available")
  /\ last.err # ClientError("Failed to get tokens")
  /\ last.err # ClientError("Failed to clear tokens")

\* C1 amended: a refresh() that fails after it read a refresh token (network
\* error, non-2xx, unparsable body, failure to persist) ends with removeItem
\* on the key before the failure reaches the caller, so a getTokens() issued
\* afterwards returns absent, unless that removal itself fails, which is what
\* is then reported ('Failed to clear tokens'); a refresh() that fails with
\* 'No refresh token available' or cannot read the store issues no request
\* and leaves the store as it was.
C1_FailedRefreshClearsAfterRead ==
  /\ C1_FailedAfterRead =>
       /\ Len(Requests("/refresh")) = 1
       /\ LastEvent.ev = "removeItem" /\ LastEvent.res = "ok"
       /\ storage[tokenKey] = NullItem
       /\ ReturnsAbsentNow
  /\ (Failed("refreshToken") /\ last.err = ClientError("Failed to clear tokens")) =>
       /\ LastEvent.ev = "removeItem" /\ LastEvent.res = "failed"
       /\ Len(Requests("/refresh")) = 1
  /\ (Failed("refreshToken") /\ last.err \in {ClientError("No refresh token available"),
                                             ClientError("Failed to get tokens")}) =>
       /\ Len(AllRequests) = 0
       /\ storage = last.pre.storage

\* a pair was stored, the new pair could not be persisted, and the key is gone
C1_Witness ==
  /\ Failed("refreshToken")
  /\ last.err = ClientError("Failed to save tokens")
  /\ PreBothTokens
  /\ storage[tokenKey] = NullItem

(***************************************************************************)
(* C2.  getSessions() and its retry after 401.                             *)
(***************************************************************************)
\* C2 as stated: a getSessions() call whose /sessions request is answered 401
\* issues never more than one /refresh and two /sessions requests.
C2_OneRefreshOneRetry ==
  (Called("getSessions") /\ Len(Requests("/sessions")) >= 1
     /\ Requests("/sessions")[1].res = "401")
  => /\ Len(Requests("/refresh")) <= 1
     /\ Len(Requests("/sessions")) <= 2

(***************************************************************************)
(* C3.  isAuthenticated() as a guard that never fails.                     *)
(***************************************************************************)
\* C3 as stated: isAuthenticated() returns a boolean from every stored
\* content and for every adapter and endpoint outcome; it never throws.
C3_IsAuthenticatedNeverThrows == Called("isAuthenticated") => last.ok

(***************************************************************************)
(* C4.  logout() with both tokens stored.                                  *)
(***************************************************************************)
\* logout() read both tokens from the store
C4_LogoutWithBothTokens ==
  /\ Finished("logout")
  /\ PreBothTokens
  /\ Len(AdapterCalls("getItem")) = 2
  /\ \A i \in 1..2 : AdapterCalls("getItem")[i].res = "ok"

\* C4: when both tokens are stored, logout() issues one request, to /logout
\* with the access token as bearer, and for every network outcome (2xx,
\* non-2xx, rejection, unparsable body) the removal of the key follows the
\* request and is the last thing the call does before it returns or throws:
\* the session is Absent when the call finishes, and a network failure is
\* what is thrown after that removal.  (An adapter that fails a removal makes
\* the call throw 'Failed to clear tokens'; the catch block then tries the
\* removal once more.)
C4_LogoutClearsWhateverTheNetwork ==
  C4_LogoutWithBothTokens =>
    /\ Len(AllRequests) = 1
    /\ AllRequests[1].target = "/logout"
    /\ AllRequests[1].bearer = PreTokens.accessToken
    /\ AllRequests[1].payload = PreTokens.refreshToken
    /\ Len(last.trace) \in {4, 5}
    /\ last.trace[3].ev = "fetch"
    /\ \A i \in 4..Len(last.trace) : last.trace[i].ev = "removeItem"
    /\ LastEvent.res = "ok" =>
         /\ storage[tokenKey] = NullItem
         /\ ReturnsAbsentNow
         /\ AllRequests[1].res = "rejected" => last.err = TransportError
         /\ AllRequests[1].res \in {"401", "500"} => last.err = ClientError("Failed to logout")
    /\ Len(AdapterFailures) = 0 =>
         (last.ok <=> (AllRequests[1].res = "200" /\ AllRequests[1].body = "json"))
    /\ Len(AdapterFailures) > 0 => last.err = ClientError("Failed to clear tokens")

\* the request was rejected, the failure reached the caller, the key is gone
C4_Witness ==
  /\ C4_LogoutWithBothTokens
  /\ AllRequests[1].res = "rejected"
  /\ ~last.ok
  /\ storage[tokenKey] = NullItem

(***************************************************************************)
(* C5.  isTokenExpired() and the 10 s buffer.                              *)
(***************************************************************************)
\* C5 as stated: isTokenExpired() returns true exactly when no TokenPair is
\* stored or the stored expiresAt is <= now + 10 s; a pair whose expiresAt
\* equals now + 10 s is reported expired.
C5_ExpiredIffAtOrBeforeBuffer ==
  (Called("isTokenExpired") /\ last.ok) =>
    (last.val.b <=> (PreTokens.isNull
                     \/ PreTokens.expiresAt <= last.pre.now + bufferInSeconds * 1000))

\* C5 amended: isTokenExpired() returns true exactly when no TokenPair is
\* stored or the stored expiresAt is < now + 10 s; a pair whose expiresAt
\* equals now + 10 s exactly is reported not expired.
C5_ExpiredIffBeforeBuffer ==
  (Called("isTokenExpired") /\ last.ok) =>
    (last.val.b <=> (PreTokens.isNull
                     \/ PreTokens.expiresAt < last.pre.now + bufferInSeconds * 1000))

\* the boundary: expiresAt = now + 10 s, reported not expired
C5_Witness ==
  /\ Called("isTokenExpired") /\ last.ok
  /\ ~PreTokens.isNull
  /\ PreTokens.expiresAt = last.pre.now + bufferInSeconds * 1000
  /\ last.val.b = FALSE

(***************************************************************************)
(* C6.  Failures that reach the caller.                                    *)
(***************************************************************************)
TaxonomyMessages ==
  {"Failed to request magic link", "Failed to verify token",
   "No refresh token available", "Failed to refresh token",
   "Failed to save tokens", "Failed to get tokens", "Failed to clear tokens",
   "Failed to logout", "Not authenticated", "Authentication failed",
   "Failed to get sessions"}

C6_Operations ==
  {"requestMagicLink", "verifyToken", "refreshToken", "logout", "getSessions",
   "saveTokens", "getTokens"}

\* C6 as stated: every failure one of these operations surfaces is an error
\* the client created, with one of its fixed messages or with the message of
\* the endpoint's error body; the rejection of a network call, the rejection
\* of response.json() or an exception of the adapter never reaches the caller.
C6_OnlyTaxonomyFailures ==
  (last.op \in C6_Operations /\ ~last.ok /\ last.err # CutOff) =>
    /\ last.err.origin \in {"client", "server"}
    /\ last.err.origin = "client" => last.err.msg \in TaxonomyMessages

(***************************************************************************)
(* C7.  Non-2xx answers whose body does not parse.                         *)
(***************************************************************************)
\* C7 as stated: when /login or /verify answers non-2xx with a body that
\* cannot be parsed, the operation fails with its generic message and not
\* with the body-parsing error.
C7_GenericMessageForUnparsableBody ==
  /\ (Called("requestMagicLink") /\ AllRequests[1].res \in {"401", "500"}
        /\ AllRequests[1].body = "unparsable")
     => last.err = ClientError("Failed to request magic link")
  /\ (Called("verifyToken") /\ AllRequests[1].res \in {"401", "500"}
        /\ AllRequests[1].body = "unparsable")
     => last.err = ClientError("Failed to verify token")

(***************************************************************************)
(* C8.  The session after a successful verifyToken().                      *)
(***************************************************************************)
\* C8 as stated: after verifyToken() succeeds a TokenPair is stored and
\* isTokenExpired() evaluated at that instant is false, for every expiresIn
\* the endpoint returns.
C8_ValidAfterVerify ==
  (Called("verifyToken") /\ last.ok) =>
    /\ ~TokensNow.val.isNull
    /\ ExpiredNow.val = FALSE

\* C8 amended: after verifyToken() succeeds a TokenPair is stored, and
\* isTokenExpired() evaluated at that instant is false exactly when the
\* expiresIn the endpoint returned is at least 10 s (the buffer); for a
\* smaller expiresIn the session is Expired from the start.
C8_ValidAfterVerifyIffBeyondBuffer ==
  (Called("verifyToken") /\ last.ok) =>
    /\ TokensNow.ok /\ ~TokensNow.val.isNull
    /\ TokensNow.val.expiresIn = last.val.body.expiresIn
    /\ ExpiredNow.ok
    /\ ExpiredNow.val = FALSE <=> last.val.body.expiresIn >= bufferInSeconds

\* verified with expiresIn = 9: stored, and expired at once
C8_Witness ==
  /\ Called("verifyToken") /\ last.ok
  /\ last.val.body.expiresIn < bufferInSeconds
  /\ ~TokensNow.val.isNull
  /\ ExpiredNow.val = TRUE

(***************************************************************************)
(* C9.  Reading back what was saved.                                       *)
(***************************************************************************)
\* the pair P the call saved: the argument of saveTokens, the answer of /verify
C9_Saved ==
  IF Called("saveTokens") THEN last.arg.tokens ELSE last.val.body

\* C9: right after saveTokens(P), or a successful verifyToken() answered P,
\* getTokens(), getAccessToken() and getRefreshToken() return P's
\* accessToken and refreshToken.
C9_ReadBackRoundTrip ==
  ((Called("saveTokens") \/ Called("verifyToken")) /\ last.ok) =>
    /\ TokensNow.ok /\ ~TokensNow.val.isNull
    /\ TokensNow.val.accessToken = C9_Saved.accessToken
    /\ TokensNow.val.refreshToken = C9_Saved.refreshToken
    /\ AccessTokenNow.ok /\ AccessTokenNow.val = C9_Saved.accessToken
    /\ RefreshTokenNow.ok /\ RefreshTokenNow.val = C9_Saved.refreshToken

\* a pair of two different non-empty tokens was verified and is read back
C9_Witness ==
  /\ Called("verifyToken") /\ last.ok
  /\ last.val.body.accessToken = "a2" /\ last.val.body.refreshToken = "r2"
  /\ AccessTokenNow.val = "a2" /\ RefreshTokenNow.val = "r2"

(***************************************************************************)
(* C10.  verifyToken() answered non-2xx.                                   *)
(***************************************************************************)
\* C10 as stated: when /verify answers non-2xx, verifyToken() fails with
\* VerificationFailed (the server's message or 'Failed to verify token') and
\* persists nothing: the store is as before, Absent if it was Absent.
C10_VerificationFailedPersistsNothing ==
  (Called("verifyToken") /\ AllRequests[1].res \in {"401", "500"}) =>
    /\ ~last.ok
    /\ \/ last.err = ClientError("Failed to verify token")
       \/ last.err.origin = "server"
    /\ Len(AdapterCalls("setItem")) = 0
    /\ storage = last.pre.storage

(***************************************************************************)
(* C11.  refresh() with no refresh token stored.                           *)
(***************************************************************************)
\* the key held nothing, the empty string or a JSON text before the call
PreReadable == PreItem.kind \in {"null", "empty", "json"}

\* refreshToken() read the store and found no refresh token in it
C11_NoRefreshTokenStored ==
  /\ Called("refreshToken")
  /\ PreReadable
  /\ Falsy(PreTokens.refreshToken)
  /\ last.trace[1].res = "ok"

\* C11: refresh() called when no refresh token is stored (nothing stored, or
\* a pair without a refresh token) fails with 'No refresh token available',
\* performs no network call and does nothing but the one read of the store;
\* no network call is made either when that read fails.
C11_NoRefreshTokenNoNetwork ==
  /\ C11_NoRefreshTokenStored =>
       /\ ~last.ok
       /\ last.err = ClientError("No refresh token available")
       /\ Len(AllRequests) = 0
       /\ Len(last.trace) = 1 /\ last.trace[1].ev = "getItem"
       /\ storage = last.pre.storage
  /\ (Called("refreshToken") /\ Falsy(PreTokens.refreshToken)) => Len(AllRequests) = 0

\* an access token is stored without a refresh token; refresh() fails
C11_Witness ==
  /\ C11_NoRefreshTokenStored
  /\ ~Falsy(PreTokens.accessToken)
  /\ last.err = ClientError("No refresh token available")

(***************************************************************************)
(* C12.  logout() with a token missing.                                    *)
(***************************************************************************)
\* logout() read the store twice and one of the two tokens was not there
C12_TokenMissing ==
  /\ Called("logout")
  /\ PreReadable
  /\ Falsy(PreTokens.accessToken) \/ Falsy(PreTokens.refreshToken)
  /\ Len(AdapterCalls("getItem")) = 2
  /\ \A i \in 1..2 : AdapterCalls("getItem")[i].res = "ok"

\* C12: logout() called when the access token or the refresh token is
\* missing performs no network call; it removes the key, returns the
\* acknowledgment 'Logged out successfully' and the key is gone.  (An adapter
\* that fails the removal makes the call throw 'Failed to clear tokens'.)
C12_LogoutWithoutTokensIsLocal ==
  C12_TokenMissing =>
    /\ Len(AllRequests) = 0
    /\ Len(last.trace) = 3
    /\ last.trace[3].ev = "removeItem"
    /\ last.trace[3].res = "ok" =>
         /\ last.ok
         /\ last.val.body = MessageBody("Logged out successfully")
         /\ storage[tokenKey] = NullItem
         /\ ReturnsAbsentNow
    /\ last.trace[3].res = "failed" =>
         /\ last.err = ClientError("Failed to clear tokens")
         /\ storage = last.pre.storage

\* an access token was stored without a refresh token; logout() returned the
\* acknowledgment and the key is gone
C12_Witness ==
  /\ C12_TokenMissing
  /\ ~Falsy(PreTokens.accessToken)
  /\ last.ok
  /\ last.val.body = MessageBody("Logged out successfully")
  /\ storage[tokenKey] = NullItem

(***************************************************************************)
(* C13.  What isAuthenticated() answers.                                   *)
(***************************************************************************)
\* the stored pair was past the buffer when the call was made
PreExpired == PastBuffer(last.pre.now, PreTokens.expiresAt)

\* the refresh inside the call persisted a new pair
RefreshSucceeded ==
  /\ Len(AdapterCalls("setItem")) = 1
  /\ AdapterCalls("setItem")[1].res = "ok"

\* C13 as stated: isAuthenticated() returns false when no access token is
\* stored and true when a non-expired pair is stored, both without a network
\* call; when the stored pair is expired it attempts refresh() once and
\* returns true if that refresh succeeds and false if it fails.  (Read with
\* a storage adapter that answers every call.)
C13_TrueIffRefreshSucceeds ==
  (Called("isAuthenticated") /\ PreReadable /\ Len(AdapterFailures) = 0) =>
    /\ last.ok
    /\ Falsy(PreTokens.accessToken) =>
         (last.val.b = FALSE /\ Len(AllRequests) = 0)
    /\ (~Falsy(PreTokens.accessToken) /\ ~PreExpired) =>
         (last.val.b = TRUE /\ Len(AllRequests) = 0)
    /\ (~Falsy(PreTokens.accessToken) /\ PreExpired) =>
         /\ Len(Requests("/refresh")) <= 1
         /\ Len(AllRequests) = Len(Requests("/refresh"))
         /\ last.val.b <=> RefreshSucceeded

\* isAuthenticated() read the store: its first read, and its second when it
\* makes one, were answered
C13_StoreRead ==
  /\ Called("isAuthenticated")
  /\ PreReadable
  /\ last.trace[1].res = "ok"
  /\ Len(last.trace) >= 2 => last.trace[2].res = "ok"

\* C13 amended: as stated, but when the stored pair is expired the call
\* returns true exactly when the refresh succeeds and an access token that is
\* not empty is then read back from the store; it returns false when the
\* refresh fails, when the refreshed pair has no access token, and when the
\* store cannot be read back.
C13_TrueIffRefreshedTokenReadBack ==
  C13_StoreRead =>
    /\ last.ok
    /\ Falsy(PreTokens.accessToken) =>
         (last.val.b = FALSE /\ Len(AllRequests) = 0 /\ Len(last.trace) = 1)
    /\ (~Falsy(PreTokens.accessToken) /\ ~PreExpired) =>
         (last.val.b = TRUE /\ Len(AllRequests) = 0 /\ Len(last.trace) = 2)
    /\ (~Falsy(PreTokens.accessToken) /\ PreExpired) =>
         /\ Len(Requests("/refresh")) <= 1
         /\ Len(AllRequests) = Len(Requests("/refresh"))
         /\ last.val.b <=> /\ RefreshSucceeded
                           /\ LastEvent.ev = "getItem" /\ LastEvent.res = "ok"
                           /\ ~Falsy(AccessTokenNow.val)

\* an expired pair was stored, the refresh succeeded, the answer is true
C13_Witness ==
  /\ C13_StoreRead
  /\ ~Falsy(PreTokens.accessToken) /\ PreExpired
  /\ RefreshSucceeded
  /\ last.val.b = TRUE

(***************************************************************************)
(* C14, C15.  handleMagicLink() and the parameters of the location.        *)
(***************************************************************************)
\* the query string the call found
PreSearch == Search(last.arg.token, last.arg.email)

\* C14: handleMagicLink() with the token or the email parameter missing (not
\* there, or empty) returns false, calls neither the endpoint nor the
\* storage adapter, and leaves the stored session and the location as they
\* were.
C14_MissingParameterDoesNothing ==
  (Called("handleMagicLink") /\ (Falsy(last.arg.token) \/ Falsy(last.arg.email))) =>
    /\ last.ok
    /\ last.val.b = FALSE
    /\ Len(last.trace) = 0
    /\ storage = last.pre.storage
    /\ last.search = PreSearch

\* a session is stored, the link has a token but no email: nothing happens
C14_Witness ==
  /\ Called("handleMagicLink")
  /\ last.arg.token = "tok" /\ last.arg.email = NULL
  /\ PreBothTokens
  /\ last.val.b = FALSE
  /\ storage = last.pre.storage

\* the token of the link was verified and the pair the endpoint answered with
\* was saved: the first two things the call did
C15_VerifiedAndSaved ==
  /\ Len(last.trace) >= 2
  /\ last.trace[1].ev = "fetch" /\ last.trace[1].target = "/verify"
  /\ last.trace[1].res = "200" /\ last.trace[1].body = "json"
  /\ last.trace[2].ev = "setItem" /\ last.trace[2].res = "ok"

\* C15: handleMagicLink() with both parameters present never throws; it
\* issues one request, to /verify with the token as bearer; it returns true
\* only after verifyToken succeeded and the pair was saved; the location has
\* lost its parameters only in that case, by a replaceState that follows the
\* save; when the verification fails it returns false, leaves the location
\* as it was and never calls replaceState.
C15_TrueOnlyAfterVerifiedAndSaved ==
  (Called("handleMagicLink") /\ ~Falsy(last.arg.token) /\ ~Falsy(last.arg.email)) =>
    /\ last.ok
    /\ Len(AllRequests) = 1
    /\ AllRequests[1].target = "/verify"
    /\ AllRequests[1].bearer = last.arg.token
    /\ AllRequests[1].payload = last.arg.email
    /\ last.val.b =>
         /\ C15_VerifiedAndSaved
         /\ Len(last.trace) = 3
         /\ last.trace[3].ev = "replaceState" /\ last.trace[3].res \in {"ok", "none"}
         /\ TokensNow.ok /\ ~TokensNow.val.isNull
    /\ last.search # PreSearch =>
         /\ last.search = NoSearch
         /\ last.val.b
         /\ C15_VerifiedAndSaved
         /\ last.trace[3].ev = "replaceState" /\ last.trace[3].res = "ok"
    /\ ~C15_VerifiedAndSaved =>
         /\ last.val.b = FALSE
         /\ last.search = PreSearch
         /\ Len(AdapterCalls("replaceState")) = 0

\* verified, saved, the parameters are gone from the location, true returned
C15_Witness ==
  /\ Called("handleMagicLink")
  /\ last.arg.token = "tok" /\ last.arg.email = "a@b.com"
  /\ C15_VerifiedAndSaved
  /\ last.search = NoSearch
  /\ last.val.b = TRUE

(***************************************************************************)
(* C16.  expiresAt is derived when the pair is persisted.                  *)
(***************************************************************************)
\* the call persisted a pair and returned
C16_Persisted ==
  /\ last.op \in {"saveTokens", "verifyToken", "refreshToken"}
  /\ last.ok

\* what the call was given to persist: the argument of saveTokens, the answer
\* of /verify or /refresh
C16_Supplied ==
  IF Called("saveTokens") THEN last.arg.tokens ELSE last.val.body

\* C16: every pair persisted by saveTokens, verifyToken or refreshToken has
\* expiresAt = (clock at save time) + expiresIn * 1000, with the expiresIn it
\* was given; an expiresAt in the endpoint's answer is not what is stored.
\* (The clock does not move between the save and the end of the call, so
\* now is the clock at save time.)  The same holds of the pair a refresh or
\* a verification inside isAuthenticated or handleMagicLink persists.
C16_ExpiresAtDerivedAtSave ==
  /\ C16_Persisted =>
       /\ TokensNow.ok /\ ~TokensNow.val.isNull
       /\ TokensNow.val.expiresIn = C16_Supplied.expiresIn
       /\ TokensNow.val.expiresAt = now + C16_Supplied.expiresIn * 1000
  /\ (last.op \in {"isAuthenticated", "handleMagicLink"}
        /\ Len(AdapterCalls("setItem")) = 1
        /\ AdapterCalls("setItem")[1].res = "ok") =>
       /\ TokensNow.ok /\ ~TokensNow.val.isNull
       /\ TokensNow.val.expiresAt = now + TokensNow.val.expiresIn * 1000

\* /verify answered with an expiresAt of its own, after time passed in
\* flight: what is stored is the clock at the save + expiresIn * 1000
C16_Witness ==
  /\ Called("verifyToken") /\ last.ok
  /\ last.val.body.expiresAt # NoNum
  /\ now > last.pre.now
  /\ TokensNow.val.expiresAt = now + last.val.body.expiresIn * 1000
  /\ TokensNow.val.expiresAt # last.val.body.expiresAt

(***************************************************************************)
(* C17.  A saved pair, looked at as time passes.                           *)
(***************************************************************************)
\* a pair was saved, at last.pre.now with the lifetime of the argument, and
\* nothing has touched the store since
C17_SavedAndWaiting == Called("saveTokens") /\ last.ok

\* the instant the buffer starts: T + E - 10 s
C17_BufferStart ==
  last.pre.now + last.arg.tokens.expiresIn * 1000 - bufferInSeconds * 1000

\* C17: after a pair with expiresIn = E is saved at T, isTokenExpired() is
\* false at every instant earlier than T + E - 10 s and true at every
\* instant later than T + E - 10 s (inside the last 10 s before T + E, at
\* T + E and after); for E = 3600 it is false at T + 10 s and true at
\* T + 3599.995 s.
C17_ExpiredOnceInsideBuffer ==
  C17_SavedAndWaiting =>
    /\ ExpiredNow.ok
    /\ now < C17_BufferStart => ExpiredNow.val = FALSE
    /\ now > C17_BufferStart => ExpiredNow.val = TRUE
    /\ last.arg.tokens.expiresIn = 3600 =>
         /\ now = last.pre.now + 10000 => ExpiredNow.val = FALSE
         /\ now = last.pre.now + 3599995 => ExpiredNow.val = TRUE

\* saved with expiresIn = 3600, looked at 5 ms before the hour is over
C17_Witness ==
  /\ C17_SavedAndWaiting
  /\ last.arg.tokens.expiresIn = 3600
  /\ now = last.pre.now + 3599995
  /\ ExpiredNow.val = TRUE

(***************************************************************************)
(* C18.  Requests that fail without touching the session.                  *)
(***************************************************************************)
\* C18: requestMagicLink(), on every outcome, and a getSessions() whose
\* /sessions request is answered non-2xx other than 401 leave the stored
\* pair as it was before the call: requestMagicLink does nothing but its one
\* request; such a getSessions reads the store, issues its request and fails
\* with 'Failed to get sessions'; and inside a getSessions that retried, the
\* request answered so is preceded by a read and followed by nothing.
C18_RequestFailedMutatesNothing ==
  /\ Called("requestMagicLink") =>
       /\ Len(last.trace) = 1 /\ last.trace[1].ev = "fetch"
       /\ storage = last.pre.storage
  /\ (Called("getSessions") /\ Len(AllRequests) >= 1 /\ AllRequests[1].res = "500") =>
       /\ ~last.ok
       /\ last.err = ClientError("Failed to get sessions")
       /\ Len(last.trace) = 2
       /\ storage = last.pre.storage
  /\ Called("getSessions") =>
       \A i \in 1..Len(last.trace) :
         (last.trace[i].target = "/sessions" /\ last.trace[i].res = "500") =>
           /\ i = Len(last.trace)
           /\ last.trace[i - 1].ev = "getItem"
           /\ last.err = ClientError("Failed to get sessions")

\* a session is stored, /sessions answers 500: the stored pair is as before
C18_Witness ==
  /\ Called("getSessions")
  /\ PreBothTokens
  /\ Len(AllRequests) = 1
  /\ AllRequests[1].res = "500"
  /\ storage = last.pre.storage
  /\ ~TokensNow.val.isNull

(***************************************************************************)
(* C19.  getSessions(): 401, then a refresh that fails.                    *)
(***************************************************************************)
\* the place in the log of the last /sessions request of the call
LastSessionsIdx ==
  CHOOSE i \in 1..Len(last.trace) :
    /\ last.trace[i].target = "/sessions"
    /\ \A j \in (i + 1)..Len(last.trace) : last.trace[j].target # "/sessions"

\* what the call did after its last /sessions request
AfterLastSessions == SubSeq(last.trace, LastSessionsIdx + 1, Len(last.trace))

\* the last /sessions request was answered 401 and the refresh that followed
\* persisted nothing: it failed
C19_RefreshFailedAfter401 ==
  /\ Finished("getSessions")
  /\ Len(Requests("/sessions")) >= 1
  /\ last.trace[LastSessionsIdx].res = "401"
  /\ \A i \in 1..Len(AfterLastSessions) :
       ~(AfterLastSessions[i].ev = "setItem" /\ AfterLastSessions[i].res = "ok")

\* the refresh issued its request
C19_RefreshRequested ==
  \E i \in 1..Len(AfterLastSessions) : AfterLastSessions[i].target = "/refresh"

\* C19 as stated: when /sessions answers 401 and the refresh that follows
\* fails, getSessions() fails with 'Authentication failed' and the session is
\* Absent afterwards.  (Read with an adapter that answers every read and
\* every removal.)
C19_AuthenticationFailedThenAbsent ==
  (C19_RefreshFailedAfter401
     /\ \A i \in 1..Len(AdapterFailures) : AdapterFailures[i].ev = "setItem") =>
    /\ last.err = ClientError("Authentication failed")
    /\ ReturnsAbsentNow

\* C19 amended: when /sessions answers 401 and the refresh that follows
\* fails, getSessions() fails with 'Authentication failed'; the session is
\* Absent afterwards when that refresh failed after it had read a refresh
\* token (its request was issued, and the removal of the key is the last
\* thing the call did); when it failed with 'No refresh token available'
\* or could not read the store, nothing is removed and the stored pair
\* stays.
C19_AuthenticationFailedAbsentAfterRequest ==
  C19_RefreshFailedAfter401 =>
    /\ ~last.ok
    /\ last.err = ClientError("Authentication failed")
    /\ C19_RefreshRequested =>
         /\ LastEvent.ev = "removeItem"
         /\ LastEvent.res = "ok" => (storage[tokenKey] = NullItem /\ ReturnsAbsentNow)
    /\ ~C19_RefreshRequested =>
         /\ Len(AfterLastSessions) = 1
         /\ AfterLastSessions[1].ev = "getItem"
         /\ Len(Requests("/sessions")) = 1 => storage = last.pre.storage

\* a pair was stored, /sessions answered 401, /refresh answered non-2xx:
\* 'Authentication failed', and the key is gone
C19_Witness ==
  /\ C19_RefreshFailedAfter401
  /\ PreBothTokens
  /\ C19_RefreshRequested
  /\ LastEvent.ev = "removeItem" /\ LastEvent.res = "ok"
  /\ last.err = ClientError("Authentication failed")
  /\ storage[tokenKey] = NullItem

(***************************************************************************)
(* C20.  getSessions() with no access token stored.                        *)
(***************************************************************************)
\* getSessions() read the store and found no access token in it
C20_NoAccessTokenStored ==
  /\ Called("getSessions")
  /\ PreReadable
  /\ Falsy(PreTokens.accessToken)
  /\ last.trace[1].res = "ok"

\* C20: getSessions() called when no access token is stored (nothing
\* stored, or a pair without an access token) fails with 'Not authenticated'
\* after the one read of the store, without a network call; no network call
\* is made either when that read fails.
C20_NotAuthenticatedNoNetwork ==
  /\ C20_NoAccessTokenStored =>
       /\ ~last.ok
       /\ last.err = ClientError("Not authenticated")
       /\ Len(AllRequests) = 0
       /\ Len(last.trace) = 1 /\ last.trace[1].ev = "getItem"
       /\ storage = last.pre.storage
  /\ (Called("getSessions") /\ Falsy(PreTokens.accessToken)) => Len(AllRequests) = 0

\* a refresh token is stored without an access token; getSessions() fails
C20_Witness ==
  /\ C20_NoAccessTokenStored
  /\ ~Falsy(PreTokens.refreshToken)
  /\ last.err = ClientError("Not authenticated")

(***************************************************************************)
(* C21.  The store is read anew by every call.                             *)
(***************************************************************************)
\* a stored pair was removed from outside, and this is the next call
C21_CalledAfterRemoval ==
  /\ last.op \in {"isAuthenticated", "getUserInfo", "refreshToken", "getSessions"}
  /\ last.pre.removed # EmptyBody

\* C21: after the stored pair is removed from outside between two calls,
\* the next isAuthenticated(), getUserInfo(), refreshToken() or getSessions()
\* behaves as with nothing stored, whatever the removed pair was: it reads
\* the store once, issues no request, writes nothing, and answers false,
\* absent, 'No refresh token available' and 'Not authenticated'.  (When
\* the adapter fails that read the call fails with 'Failed to get tokens',
\* without a request.)
C21_AbsentAfterExternalRemoval ==
  C21_CalledAfterRemoval =>
    /\ Len(last.trace) = 1 /\ last.trace[1].ev = "getItem"
    /\ Len(AllRequests) = 0
    /\ storage = last.pre.storage
    /\ storage[tokenKey] = NullItem
    /\ last.trace[1].res = "failed" => last.err = ClientError("Failed to get tokens")
    /\ last.trace[1].res = "ok" =>
         /\ Called("isAuthenticated") => (last.ok /\ last.val.b = FALSE)
         /\ Called("getUserInfo") => (last.ok /\ last.val.user.isNull)
         /\ Called("refreshToken") =>
              last.err = ClientError("No refresh token available")
         /\ Called("getSessions") => last.err = ClientError("Not authenticated")

\* a pair that was not expired, with a JWT that names a user, was removed;
\* the identity is absent
C21_Witness ==
  /\ Called("getUserInfo")
  /\ last.pre.removed.accessToken = JwtUser
  /\ last.pre.removed.refreshToken = "r1"
  /\ last.pre.removed.expiresAt > last.pre.now + bufferInSeconds * 1000
  /\ last.ok /\ last.val.user.isNull

(***************************************************************************)
(* C22.  getUserInfo() and tokens that cannot be decoded.                  *)
(***************************************************************************)
\* the tokens of the model that cannot be decoded: one segment; a payload
\* segment that is not base64; a payload that is not JSON
Undecodable == {"a1", "a2", JwtNotBase64, JwtNotJson}

\* getUserInfo() read the store
C22_StoreRead ==
  /\ Called("getUserInfo")
  /\ PreReadable
  /\ last.trace[1].res = "ok"

\* C22: getUserInfo() returns absent, and does not fail, when no access
\* token is stored and when the stored access token cannot be decoded
\* (fewer than two segments, a payload that is not base64 or not JSON); it
\* returns the user of a token that can be decoded; it does nothing but
\* read the key once, and the stored pair is as before.
C22_AbsentNotFailure ==
  /\ Called("getUserInfo") =>
       /\ Len(last.trace) = 1 /\ last.trace[1].ev = "getItem"
       /\ storage = last.pre.storage
  /\ C22_StoreRead =>
       /\ last.ok
       /\ (Falsy(PreTokens.accessToken) \/ PreTokens.accessToken \in Undecodable) =>
            last.val.user.isNull
       /\ PreTokens.accessToken \in {JwtUser, JwtUnsigned} =>
            (~last.val.user.isNull /\ last.val.user.email = "a@b.com")

\* a pair whose access token has a payload that is not JSON: absent, stored
\* pair as before
C22_Witness ==
  /\ C22_StoreRead
  /\ PreTokens.accessToken = JwtNotJson
  /\ last.ok /\ last.val.user.isNull
  /\ storage = last.pre.storage

(***************************************************************************)
(* C26.  The client and the rest of the backing store.                     *)
(***************************************************************************)
\* C26: whatever calls have been made, every entry of the store other than
\* 'mikroauth_tokens' holds what it held at the start, every adapter call of
\* a client call is a getItem, setItem or removeItem of that one key, and
\* the adapter's clear() is never called.
C26_OnlyTheTokenKey ==
  /\ \A k \in Keys \ {tokenKey} : storage[k] = InitStorage[k]
  /\ \A i \in 1..Len(last.trace) :
       /\ last.trace[i].ev # "clear"
       /\ last.trace[i].ev \in {"getItem", "setItem", "removeItem"}
            => last.trace[i].target = tokenKey

\* a logout of a stored session has removed the pair; the other entry of the
\* store is still there
C26_Witness ==
  /\ Called("logout")
  /\ last.ok
  /\ PreBothTokens
  /\ Len(AdapterCalls("removeItem")) = 1
  /\ storage[tokenKey] = NullItem
  /\ storage[otherKey] = GarbageItem

(***************************************************************************)
(* C25.  getSessions(): the token of the retried request.                  *)
(***************************************************************************)
\* the call has stored or removed nothing since its last /sessions request:
\* the key holds what it held when that request was sent
C25_StoreAsAtLastRequest ==
  \A i \in 1..Len(AfterLastSessions) :
    ~(/\ AfterLastSessions[i].ev \in {"setItem", "removeItem"}
      /\ AfterLastSessions[i].res = "ok")

\* C25: a /sessions request that getSessions() sends again after a 401 comes
\* right after a /refresh answered 200, the save of its pair and a new read
\* of the key, and its bearer is the access token that save stored.
C25_RetryCarriesSavedToken ==
  (Called("getSessions") /\ Len(Requests("/sessions")) >= 2
     /\ C25_StoreAsAtLastRequest) =>
    LET k == LastSessionsIdx
    IN  /\ k > 3
        /\ last.trace[k - 3].ev = "fetch"
        /\ last.trace[k - 3].target = "/refresh"
        /\ last.trace[k - 3].res = "200"
        /\ last.trace[k - 2].ev = "setItem"
        /\ last.trace[k - 2].res = "ok"
        /\ last.trace[k - 1].ev = "getItem"
        /\ last.trace[k - 1].res = "ok"
        /\ last.trace[k].bearer = AccessTokenNow.val

\* the request with "a1" was answered 401, the refresh saved "a2", and the
\* second request, with "a2", was answered with the sessions
C25_Witness ==
  /\ Called("getSessions")
  /\ last.ok
  /\ Len(Requests("/sessions")) = 2
  /\ Requests("/sessions")[1].bearer = "a1"
  /\ Requests("/sessions")[1].res = "401"
  /\ Requests("/sessions")[2].bearer = "a2"
  /\ AccessTokenNow.val = "a2"

(***************************************************************************)
(* C23, C24.  Overlapping refreshes.                                       *)
(***************************************************************************)
\* calls c and d were under way together
Overlapped(c, d) == c # d /\ d \in calls[c].with

\* the refresh of call c stored a new pair
Saved(c) == calls[c].saved # NullItem

AllDone == \A c \in Procs : calls[c].pc = "done"

\* C23 as stated: two overlapping refreshToken() calls, or two overlapping
\* isAuthenticated() calls, have finished and the refresh of one of them
\* succeeded: the key holds a pair that a successful call saved.
C23_OverlappingRefreshHarmless ==
  (/\ AllDone
   /\ \E c, d \in Procs : Overlapped(c, d) /\ calls[c].kind = calls[d].kind
   /\ \E c \in Procs : Saved(c)) =>
    \E c \in Procs : Saved(c) /\ storage[tokenKey] = calls[c].saved

\* call c has come to the request of its refresh (or is past it)
Refreshing(c) ==
  /\ calls[c].pc \in {"fetch", "getAccessToken", "done"}
  /\ ~Falsy(calls[c].rt)

\* C24: every isAuthenticated() call that found the session expired and
\* read a refresh token has issued one /refresh request of its own, with
\* the token it read, whatever the other call is doing: no call waits for
\* or shares the request of another.
C24_EachIssuesItsOwnRefresh ==
  \A c \in Procs :
    (calls[c].kind = "isAuthenticated" /\ calls[c].expired /\ Refreshing(c)) =>
      calls[c].sent = <<RefreshRequest(calls[c].rt)>>

\* two isAuthenticated() calls are waiting for /refresh together, and both
\* requests carry the stored refresh token "r1"
C24_Witness ==
  /\ Overlapped("c1", "c2")
  /\ \A c \in Procs :
       /\ calls[c].kind = "isAuthenticated"
       /\ calls[c].expired
       /\ calls[c].pc = "fetch"
       /\ calls[c].sent = <<RefreshRequest("r1")>>
  /\ RefreshTokenNow.val = "r1"

====
